---- MODULE Spec2Model ----
(***************************************************************************)
(* Model of gpp_exception.hpp: the exception taxonomy of optimal_learning  *)
(* (RuntimeException, BoundsException<T>, LowerBoundException<T>,          *)
(* UpperBoundException<T>, InvalidValueException<T>,                       *)
(* SingularMatrixException) and the raise mechanism ThrowException() in    *)
(* its two build modes (throw, or OL_NO_EXCEPTIONS with a user-supplied    *)
(* ThrowException).                                                        *)
(*                                                                         *)
(* One behaviour is one failure: the caller nests try blocks, detects a    *)
(* failure, constructs one error value, possibly inspects it, and raises   *)
(* it; the exception object (a copy) unwinds the stack of try blocks until *)
(* a catch clause matches or std::terminate() is reached.                  *)
(*                                                                         *)
(* A value of type int is an integer; a value of type double is a pair     *)
(* <<"fin", t>> (the number t/10) or one of the three numeric_limits       *)
(* constants <<"max", 0>>, <<"lowest", 0>>, <<"min", 0>>.  Strings are      *)
(* strings: what() is compared and searched character by character.        *)
(***************************************************************************)
EXTENDS Integers, Sequences, FiniteSets, TLC

VARIABLES
  mode,        \* "unwind" | "abort": whether OL_NO_EXCEPTIONS is defined (fixed at build time)
  pc,          \* position of the thread that detects the failure
  stack,       \* enclosing try blocks, outermost first: the type each catch clause declares
  err,         \* the error value the caller constructed (NoError before construction)
  args,        \* the constructor arguments the value held by err was constructed from
  buf,         \* the caller's matrix storage: [live, data]
  inflight,    \* the exception object being propagated (the copy made by throw)
  thrownAs,    \* the static type ThrowException was instantiated with
  raiseStack,  \* the enclosing try blocks at the raise
  caught,      \* what the running handler received: [handler, depth, obj]
  termCalls,   \* abort mode: the arguments the user's ThrowException was called with
  afterRaise,  \* TRUE once the statement following the raise has been executed
  lastRead,    \* the last accessor call and its result, a local of the running scope
  rejected     \* the call the compiler rejected, when the build failed

vars == <<mode, pc, stack, err, args, buf, inflight, thrownAs, raiseStack,
          caught, termCalls, afterRaise, lastRead, rejected>>

None == [none |-> TRUE]
NoError == None

-----------------------------------------------------------------------------
(* Bounds of the model *)

\* deepest nesting of try blocks around the raise, in SpecNesting
MaxDepth == 2
\* deepest nesting of try blocks around the raise, in Spec
MaxTry == 1
\* largest row and column count of a matrix
MaxDim == 2

-----------------------------------------------------------------------------
(* Types *)

ValueTypes == {"int", "double"}

RuntimeExceptionT == [kind |-> "RuntimeException", T |-> "none"]
SingularMatrixExceptionT == [kind |-> "SingularMatrixException", T |-> "none"]
StdException == [kind |-> "std::exception", T |-> "none"]
BoundsExceptionT(T) == [kind |-> "BoundsException", T |-> T]
LowerBoundExceptionT(T) == [kind |-> "LowerBoundException", T |-> T]
UpperBoundExceptionT(T) == [kind |-> "UpperBoundException", T |-> T]
InvalidValueExceptionT(T) == [kind |-> "InvalidValueException", T |-> T]

BoundsFamily == {"BoundsException", "LowerBoundException", "UpperBoundException"}

ErrorTypes ==
  {RuntimeExceptionT, SingularMatrixExceptionT}
    \cup {BoundsExceptionT(T) : T \in ValueTypes}
    \cup {LowerBoundExceptionT(T) : T \in ValueTypes}
    \cup {UpperBoundExceptionT(T) : T \in ValueTypes}
    \cup {InvalidValueExceptionT(T) : T \in ValueTypes}

\* what a catch clause may declare
HandlerTypes == ErrorTypes \cup {StdException}

\* kName of each class
kName(kind) == kind

\* the class itself and its public bases
Bases(t) ==
  {t, StdException}
    \cup (IF t.kind \in {"LowerBoundException", "UpperBoundException"}
            THEN {BoundsExceptionT(t.T)} ELSE {})

IsFloatingPoint_any(T) == TRUE

\* std::is_floating_point<ValueType>::value
IsFloatingPoint(T) == T = "double"

-----------------------------------------------------------------------------
(* std::numeric_limits *)

IntMax == 2147483647
IntLowest == -2147483647 - 1

NumericLimitsMax(T) == IF T = "int" THEN IntMax ELSE <<"max", 0>>
NumericLimitsLowest(T) == IF T = "int" THEN IntLowest ELSE <<"lowest", 0>>

-----------------------------------------------------------------------------
(* Formatting *)

DigitChar(d) == SubSeq("0123456789", d + 1, d + 1)

RECURSIVE Digits(_)
Digits(n) == IF n < 10 THEN DigitChar(n) ELSE Digits(n \div 10) \o DigitChar(n % 10)

\* the decimal digits of -n for n < 0, without negating n (INT_MIN has no negation)
RECURSIVE NegDigits(_)
NegDigits(n) ==
  LET q == n \div 10
      r == n % 10
  IN IF r = 0 THEN (IF q = 0 THEN "" ELSE NegDigits(q)) \o "0"
     ELSE (IF q = -1 THEN "" ELSE NegDigits(q + 1)) \o DigitChar(10 - r)

FormatInt(n) == IF n < 0 THEN "-" \o NegDigits(n) ELSE Digits(n)

\* a double, printed with the shortest digits: 1.0 is "1", 0.1 is "0.1"
FormatDouble(d) ==
  CASE d[1] = "max" -> "1.79769e+308"
    [] d[1] = "lowest" -> "-1.79769e+308"
    [] d[1] = "min" -> "2.22507e-308"
    [] OTHER ->
         LET t == d[2]
             a == IF t < 0 THEN -t ELSE t
         IN (IF t < 0 THEN "-" ELSE "") \o Digits(a \div 10)
              \o (IF a % 10 = 0 THEN "" ELSE "." \o DigitChar(a % 10))

FormatValue(T, v) == IF T = "int" THEN FormatInt(v) ELSE FormatDouble(v)

\* OL_STRINGIFY_FILE_AND_LINE at line `line` of file `file`
OL_STRINGIFY_FILE_AND_LINE(file, line) == "(" \o file \o ": " \o FormatInt(line) \o ")"

\* the tail every what() string ends with
AppendCustomMessageAndDebugInfo(line_info, func_info, custom_message) ==
  custom_message \o " " \o func_info \o " " \o line_info

-----------------------------------------------------------------------------
(* Constructors.  An object is a record: its class (type) and its fields. *)

\* RuntimeException::RuntimeException
RuntimeException(line_info, func_info, custom_message) ==
  [type |-> RuntimeExceptionT,
   message_ |-> kName("RuntimeException") \o ": "
                  \o AppendCustomMessageAndDebugInfo(line_info, func_info, custom_message)]

\* the protected BoundsException constructor, which the three public ones delegate to
BoundsExceptionProtected(type, name_in, line_info, func_info, custom_message, value_in, min_in, max_in) ==
  [type |-> type,
   value_ |-> value_in, min_ |-> min_in, max_ |-> max_in,
   message_ |-> name_in \o ": " \o FormatValue(type.T, value_in) \o " is not in range ["
                  \o FormatValue(type.T, min_in) \o ", " \o FormatValue(type.T, max_in) \o "]. "
                  \o AppendCustomMessageAndDebugInfo(line_info, func_info, custom_message)]

BoundsException_swapped(T, line_info, func_info, custom_message, value_in, min_in, max_in) ==
  BoundsExceptionProtected(BoundsExceptionT(T), kName("BoundsException"),
                           line_info, func_info, custom_message, value_in, max_in, min_in)

\* BoundsException<T>::BoundsException (public)
BoundsException(T, line_info, func_info, custom_message, value_in, min_in, max_in) ==
  BoundsExceptionProtected(BoundsExceptionT(T), kName("BoundsException"),
                           line_info, func_info, custom_message, value_in, min_in, max_in)

LowerBoundException_basename(T, line_info, func_info, custom_message, value_in, min_in) ==
  BoundsExceptionProtected(LowerBoundExceptionT(T), kName("BoundsException"),
                           line_info, func_info, custom_message, value_in, min_in,
                           NumericLimitsMax(T))

\* LowerBoundException<T>::LowerBoundException
LowerBoundException(T, line_info, func_info, custom_message, value_in, min_in) ==
  BoundsExceptionProtected(LowerBoundExceptionT(T), kName("LowerBoundException"),
                           line_info, func_info, custom_message, value_in, min_in,
                           NumericLimitsMax(T))

\* numeric_limits<T>::min() in place of lowest(): for double the smallest positive value
UpperBoundException_min(T, line_info, func_info, custom_message, value_in, max_in) ==
  BoundsExceptionProtected(UpperBoundExceptionT(T), kName("UpperBoundException"),
                           line_info, func_info, custom_message, value_in,
                           IF T = "int" THEN IntLowest ELSE <<"min", 0>>, max_in)

\* UpperBoundException<T>::UpperBoundException
UpperBoundException(T, line_info, func_info, custom_message, value_in, max_in) ==
  BoundsExceptionProtected(UpperBoundExceptionT(T), kName("UpperBoundException"),
                           line_info, func_info, custom_message, value_in,
                           NumericLimitsLowest(T), max_in)

\* the value tolerance_ holds when no tolerance is supplied
NoTolerance(T) == IF T = "int" THEN 0 ELSE <<"fin", 0>>

\* InvalidValueException<T>::InvalidValueException (value, truth)
InvalidValueException(T, line_info, func_info, custom_message, value_in, truth_in) ==
  [type |-> InvalidValueExceptionT(T),
   value_ |-> value_in, truth_ |-> truth_in, tolerance_ |-> NoTolerance(T),
   message_ |-> kName("InvalidValueException") \o ": " \o FormatValue(T, value_in) \o " != "
                  \o FormatValue(T, truth_in) \o " (value != truth). "
                  \o AppendCustomMessageAndDebugInfo(line_info, func_info, custom_message)]

\* InvalidValueException<T>::InvalidValueException (value, truth, tolerance);
\* the plus-minus sign of the message is written "+/-"
InvalidValueExceptionTolerance(T, line_info, func_info, custom_message, value_in, truth_in, tolerance_in) ==
  [type |-> InvalidValueExceptionT(T),
   value_ |-> value_in, truth_ |-> truth_in, tolerance_ |-> tolerance_in,
   message_ |-> kName("InvalidValueException") \o ": " \o FormatValue(T, value_in) \o " != "
                  \o FormatValue(T, truth_in) \o " +/- " \o FormatValue(T, tolerance_in)
                  \o " (value != truth +/- tolerance). "
                  \o AppendCustomMessageAndDebugInfo(line_info, func_info, custom_message)]

\* SingularMatrixException::SingularMatrixException: matrix_in points at the
\* caller's storage, of which the first num_rows*num_cols values are copied
SingularMatrixException(line_info, func_info, custom_message, matrix_in, num_rows_in, num_cols_in) ==
  [type |-> SingularMatrixExceptionT,
   num_rows_ |-> num_rows_in, num_cols_ |-> num_cols_in,
   matrix_ |-> SubSeq(matrix_in, 1, num_rows_in * num_cols_in),
   message_ |-> kName("SingularMatrixException") \o ": " \o FormatInt(num_rows_in) \o " x "
                  \o FormatInt(num_cols_in) \o " matrix is singular. "
                  \o AppendCustomMessageAndDebugInfo(line_info, func_info, custom_message)]

\* the enable_if on the tolerance constructor; every other constructor is always there
CtorSelectable(type, form) ==
  form = "plain" \/ (type.kind = "InvalidValueException" /\ IsFloatingPoint(type.T))

\* operator= : deleted by OL_DISALLOW_DEFAULT_AND_ASSIGN in every class that uses
\* the macro; RuntimeException only deletes its default constructor
AssignAvailable(type) == type.kind = "RuntimeException"

\* the default constructor is deleted in every class
DefaultCtorAvailable(type) == FALSE

-----------------------------------------------------------------------------
(* Accessors *)

\* what(): virtual, so it answers for the object's own class; an object sliced
\* to std::exception has lost message_
what(e) == IF e.type = StdException THEN "std::exception" ELSE e.message_

value(e) == e.value_

max_copy_paste(e) == e.min_

max(e) == e.max_

min(e) == e.min_

truth(e) == e.truth_

tolerance(e) == e.tolerance_

num_rows(e) == e.num_rows_

num_cols(e) == e.num_cols_

\* a matrix() that looked at the caller's storage instead of at matrix_
matrix_of_caller(e) ==
  IF buf.live THEN SubSeq(buf.data, 1, e.num_rows_ * e.num_cols_) ELSE <<>>

matrix(e) == e.matrix_

\* the accessors each class has
Accessors(type) ==
  CASE type.kind \in BoundsFamily -> {"what", "value", "min", "max"}
    [] type.kind = "InvalidValueException" -> {"what", "value", "truth", "tolerance"}
    [] type.kind = "SingularMatrixException" -> {"what", "num_rows", "num_cols", "matrix"}
    [] OTHER -> {"what"}

Call(acc, e) ==
  CASE acc = "what" -> what(e)
    [] acc = "value" -> value(e)
    [] acc = "min" -> min(e)
    [] acc = "max" -> max(e)
    [] acc = "truth" -> truth(e)
    [] acc = "tolerance" -> tolerance(e)
    [] acc = "num_rows" -> num_rows(e)
    [] acc = "num_cols" -> num_cols(e)
    [] acc = "matrix" -> matrix(e)

-----------------------------------------------------------------------------
(* Inputs: the calls a caller writes *)
(* Two sets of inputs are used: the wide one varies every constructor argument  *)
(* (wide = TRUE), the narrow one has one call of each constructor (wide = FALSE) *)

IntInputs == {-1, 5}
DoubleInputs == {<<"fin", 15>>, <<"fin", -20>>}
Inputs(T, wide) ==
  IF wide THEN (IF T = "int" THEN IntInputs ELSE DoubleInputs)
  ELSE (IF T = "int" THEN {5} ELSE {<<"fin", 15>>})

LineInfos == {OL_STRINGIFY_FILE_AND_LINE("gpp_foo.cpp", 893)}
FuncInfos == {"Foo"}
\* custom_message is optional
CustomMessages(wide) == IF wide THEN {"", "bad value"} ELSE {"bad value"}
Dims(wide) == IF wide THEN 1..MaxDim ELSE {MaxDim}

\* the caller's matrix storage as allocated: MaxDim*MaxDim distinct values
InitialMatrix == [i \in 1..(MaxDim * MaxDim) |-> <<"fin", 10 * i>>]
ZeroMatrix == [i \in 1..(MaxDim * MaxDim) |-> <<"fin", 0>>]

\* RuntimeException carries nothing but its message: its calls always vary it
RuntimeCalls ==
  [type : {RuntimeExceptionT}, form : {"plain"},
   line_info : LineInfos, func_info : FuncInfos, custom_message : CustomMessages(TRUE)]

BoundsCalls(wide) ==
  UNION {[type : {BoundsExceptionT(T)}, form : {"plain"},
          line_info : LineInfos, func_info : FuncInfos, custom_message : CustomMessages(wide),
          value : Inputs(T, wide), min : Inputs(T, wide), max : Inputs(T, wide)]
           : T \in ValueTypes}

LowerBoundCalls(wide) ==
  UNION {[type : {LowerBoundExceptionT(T)}, form : {"plain"},
          line_info : LineInfos, func_info : FuncInfos, custom_message : CustomMessages(wide),
          value : Inputs(T, wide), min : Inputs(T, wide)] : T \in ValueTypes}

UpperBoundCalls(wide) ==
  UNION {[type : {UpperBoundExceptionT(T)}, form : {"plain"},
          line_info : LineInfos, func_info : FuncInfos, custom_message : CustomMessages(wide),
          value : Inputs(T, wide), max : Inputs(T, wide)] : T \in ValueTypes}

InvalidValueCalls(wide) ==
  UNION {[type : {InvalidValueExceptionT(T)}, form : {"plain"},
          line_info : LineInfos, func_info : FuncInfos, custom_message : CustomMessages(wide),
          value : Inputs(T, wide), truth : Inputs(T, wide)] : T \in ValueTypes}

\* the calls of the tolerance constructor a caller may write, for either T
InvalidValueToleranceCalls(wide) ==
  UNION {[type : {InvalidValueExceptionT(T)}, form : {"tolerance"},
          line_info : LineInfos, func_info : FuncInfos, custom_message : CustomMessages(wide),
          value : Inputs(T, wide), truth : Inputs(T, wide), tolerance : Inputs(T, wide)]
           : T \in ValueTypes}

\* matrix_in points at the caller's storage, which holds `data` at the call
SingularMatrixCalls(data, wide) ==
  [type : {SingularMatrixExceptionT}, form : {"plain"},
   line_info : LineInfos, func_info : FuncInfos, custom_message : CustomMessages(wide),
   matrix_in : {data}, num_rows : Dims(wide), num_cols : Dims(wide)]

ConstructorCalls(data, wide) ==
  RuntimeCalls \cup BoundsCalls(wide) \cup LowerBoundCalls(wide) \cup UpperBoundCalls(wide)
    \cup InvalidValueCalls(wide) \cup InvalidValueToleranceCalls(wide)
    \cup SingularMatrixCalls(data, wide)

\* the object the constructor call a builds
New(a) ==
  CASE a.type.kind = "RuntimeException" ->
         RuntimeException(a.line_info, a.func_info, a.custom_message)
    [] a.type.kind = "BoundsException" ->
         BoundsException(a.type.T, a.line_info, a.func_info, a.custom_message,
                         a.value, a.min, a.max)
    [] a.type.kind = "LowerBoundException" ->
         LowerBoundException(a.type.T, a.line_info, a.func_info, a.custom_message,
                             a.value, a.min)
    [] a.type.kind = "UpperBoundException" ->
         UpperBoundException(a.type.T, a.line_info, a.func_info, a.custom_message,
                             a.value, a.max)
    [] a.type.kind = "InvalidValueException" /\ a.form = "plain" ->
         InvalidValueException(a.type.T, a.line_info, a.func_info, a.custom_message,
                               a.value, a.truth)
    [] a.type.kind = "InvalidValueException" /\ a.form = "tolerance" ->
         InvalidValueExceptionTolerance(a.type.T, a.line_info, a.func_info,
                                        a.custom_message, a.value, a.truth, a.tolerance)
    [] a.type.kind = "SingularMatrixException" ->
         SingularMatrixException(a.line_info, a.func_info, a.custom_message,
                                 a.matrix_in, a.num_rows, a.num_cols)

\* what the compiler is asked to accept: a constructor call, an assignment
\* between two error values, a default construction
CallForms ==
  [op : {"ctor"}, type : ErrorTypes, form : {"plain", "tolerance"}]
    \cup [op : {"assign", "default"}, type : ErrorTypes, form : {"none"}]

WellFormed(c) ==
  CASE c.op = "ctor" -> CtorSelectable(c.type, c.form)
    [] c.op = "assign" -> AssignAvailable(c.type)
    [] c.op = "default" -> DefaultCtorAvailable(c.type)

-----------------------------------------------------------------------------
(* throw and catch *)

Matches_kindOnly(h, t) == h.kind \in {b.kind : b \in Bases(t)}

\* a catch clause declaring h catches an exception object of class t
Matches(h, t) == h \in Bases(t)

ThrowCopy_dynamic(static, e) == e

\* "throw except": the exception object is copy-constructed as the static type
\* ExceptionType of the reference, whatever the class of the object it refers to
ThrowCopy(static, e) ==
  IF static = e.type THEN e
  ELSE IF static = StdException THEN [type |-> StdException]
  ELSE [e EXCEPT !.type = static]

ThrowTarget_returns == "after_raise"

\* where control is after "throw except": in the unwinder, never back in ThrowException
ThrowTarget == "unwinding"

PassByValue(e) == [type |-> StdException]

\* the user's ThrowException takes const std::exception&: it sees the object itself
PassByReference(e) == e

-----------------------------------------------------------------------------
(* The state machine *)

Init ==
  /\ mode \in {"unwind", "abort"}
  /\ pc = "build"
  /\ stack = <<>>
  /\ err = NoError
  /\ args = None
  /\ buf = [live |-> TRUE, data |-> InitialMatrix]
  /\ inflight = None
  /\ thrownAs = None
  /\ raiseStack = <<>>
  /\ caught = None
  /\ termCalls = <<>>
  /\ afterRaise = FALSE
  /\ lastRead = None
  /\ rejected = None

\* every call of the translation unit is well formed
BuildAccepted ==
  /\ pc = "build"
  /\ pc' = "run"
  /\ UNCHANGED <<mode, stack, err, args, buf, inflight, thrownAs, raiseStack,
                 caught, termCalls, afterRaise, lastRead, rejected>>

\* the translation unit holds a call the compiler rejects: nothing is built
BuildRejected ==
  /\ pc = "build"
  /\ \E c \in CallForms :
       /\ ~WellFormed(c)
       /\ rejected' = c
  /\ pc' = "build_failed"
  /\ UNCHANGED <<mode, stack, err, args, buf, inflight, thrownAs, raiseStack,
                 caught, termCalls, afterRaise, lastRead>>

\* try { ... } catch (const h&) { ... }; a build without exceptions has no try blocks
EnterTry(depth) ==
  /\ mode = "unwind"
  /\ pc = "run"
  /\ err = NoError
  /\ Len(stack) < depth
  /\ \E h \in HandlerTypes : stack' = Append(stack, h)
  /\ UNCHANGED <<mode, pc, err, args, buf, inflight, thrownAs, raiseStack,
                 caught, termCalls, afterRaise, lastRead, rejected>>

\* the try block ends without a failure
LeaveTry ==
  /\ pc = "run"
  /\ err = NoError
  /\ stack # <<>>
  /\ stack' = SubSeq(stack, 1, Len(stack) - 1)
  /\ UNCHANGED <<mode, pc, err, args, buf, inflight, thrownAs, raiseStack,
                 caught, termCalls, afterRaise, lastRead, rejected>>

Construct(a) ==
  /\ pc = "run"
  /\ err = NoError
  /\ CtorSelectable(a.type, a.form)
  /\ err' = New(a)
  /\ args' = a
  /\ UNCHANGED <<mode, pc, stack, buf, inflight, thrownAs, raiseStack,
                 caught, termCalls, afterRaise, lastRead, rejected>>

ConstructRuntimeException == \E a \in RuntimeCalls : Construct(a)
ConstructBoundsException(wide) == \E a \in BoundsCalls(wide) : Construct(a)
ConstructLowerBoundException(wide) == \E a \in LowerBoundCalls(wide) : Construct(a)
ConstructUpperBoundException(wide) == \E a \in UpperBoundCalls(wide) : Construct(a)
ConstructInvalidValueException(wide) == \E a \in InvalidValueCalls(wide) : Construct(a)
ConstructInvalidValueExceptionTolerance(wide) ==
  \E a \in InvalidValueToleranceCalls(wide) : Construct(a)
ConstructSingularMatrixException(wide) ==
  /\ buf.live
  /\ \E a \in SingularMatrixCalls(buf.data, wide) : Construct(a)

\* a = RuntimeException(...): the implicitly declared copy assignment
AssignRuntimeException ==
  /\ pc = "run"
  /\ err # NoError
  /\ AssignAvailable(err.type)
  /\ \E a \in RuntimeCalls :
       /\ New(a) # err
       /\ err' = New(a)
       /\ args' = a
  /\ UNCHANGED <<mode, pc, stack, buf, inflight, thrownAs, raiseStack,
                 caught, termCalls, afterRaise, lastRead, rejected>>

\* the caller calls an accessor of the error value
CallAccessor ==
  /\ pc = "run"
  /\ err # NoError
  /\ \E acc \in Accessors(err.type) :
       lastRead' = [accessor |-> acc, result |-> Call(acc, err)]
  /\ UNCHANGED <<mode, pc, stack, err, args, buf, inflight, thrownAs, raiseStack,
                 caught, termCalls, afterRaise, rejected>>

\* the caller overwrites the matrix it passed to the constructor
CallerOverwritesMatrix ==
  /\ pc = "run"
  /\ err # NoError
  /\ err.type = SingularMatrixExceptionT
  /\ buf.live
  /\ buf.data # ZeroMatrix
  /\ buf' = [buf EXCEPT !.data = ZeroMatrix]
  /\ UNCHANGED <<mode, pc, stack, err, args, inflight, thrownAs, raiseStack,
                 caught, termCalls, afterRaise, lastRead, rejected>>

\* the caller releases the matrix it passed to the constructor
CallerFreesMatrix ==
  /\ pc = "run"
  /\ err # NoError
  /\ err.type = SingularMatrixExceptionT
  /\ buf.live
  /\ buf' = [live |-> FALSE, data |-> <<>>]
  /\ UNCHANGED <<mode, pc, stack, err, args, inflight, thrownAs, raiseStack,
                 caught, termCalls, afterRaise, lastRead, rejected>>

\* ThrowException<static>(e), exceptions enabled
RaiseUnwind(e, static) ==
  /\ inflight' = ThrowCopy(static, e)
  /\ thrownAs' = static
  /\ raiseStack' = stack
  /\ pc' = ThrowTarget
  /\ lastRead' = None
  /\ UNCHANGED <<mode, stack, buf, caught, termCalls, afterRaise, rejected>>

\* ThrowException(e), OL_NO_EXCEPTIONS: the call of the user's function
RaiseAbort(e) ==
  /\ termCalls' = Append(termCalls, [exception |-> PassByReference(e), returned |-> FALSE])
  /\ thrownAs' = StdException
  /\ raiseStack' = stack
  /\ pc' = "terminal_action"
  /\ lastRead' = None
  /\ UNCHANGED <<mode, stack, buf, inflight, caught, afterRaise, rejected>>

\* ThrowException(err) with the template argument deduced from the reference
\* the caller passes: the class of err or one of its bases
ThrowException ==
  /\ mode = "unwind"
  /\ pc = "run"
  /\ err # NoError
  /\ \E static \in Bases(err.type) : RaiseUnwind(err, static)
  /\ UNCHANGED <<err, args>>

ThrowExceptionNoExceptions ==
  /\ mode = "abort"
  /\ pc = "run"
  /\ err # NoError
  /\ RaiseAbort(err)
  /\ UNCHANGED <<err, args>>

\* OL_THROW_EXCEPTION(ExceptionType, Args...): constructs the temporary and raises it
OL_THROW_EXCEPTION(wide) ==
  /\ pc = "run"
  /\ err = NoError
  /\ buf.live
  /\ \E a \in ConstructorCalls(buf.data, wide) :
       /\ CtorSelectable(a.type, a.form)
       /\ err' = New(a)
       /\ args' = a
       /\ IF mode = "unwind" THEN RaiseUnwind(New(a), a.type) ELSE RaiseAbort(New(a))

\* the innermost try block has a matching catch clause: its handler runs
Catch ==
  /\ pc = "unwinding"
  /\ stack # <<>>
  /\ Matches(stack[Len(stack)], inflight.type)
  /\ caught' = [handler |-> stack[Len(stack)], depth |-> Len(stack), obj |-> inflight]
  /\ stack' = SubSeq(stack, 1, Len(stack) - 1)
  /\ pc' = "handling"
  /\ UNCHANGED <<mode, err, args, buf, inflight, thrownAs, raiseStack,
                 termCalls, afterRaise, lastRead, rejected>>

\* the innermost try block has no matching catch clause: it is left
PropagateFrame ==
  /\ pc = "unwinding"
  /\ stack # <<>>
  /\ ~Matches(stack[Len(stack)], inflight.type)
  /\ stack' = SubSeq(stack, 1, Len(stack) - 1)
  /\ UNCHANGED <<mode, pc, err, args, buf, inflight, thrownAs, raiseStack,
                 caught, termCalls, afterRaise, lastRead, rejected>>

\* no enclosing try block is left: std::terminate()
Terminate ==
  /\ pc = "unwinding"
  /\ stack = <<>>
  /\ pc' = "terminated"
  /\ UNCHANGED <<mode, stack, err, args, buf, inflight, thrownAs, raiseStack,
                 caught, termCalls, afterRaise, lastRead, rejected>>

\* the handler calls an accessor of the object it caught
HandlerCallsAccessor ==
  /\ pc = "handling"
  /\ \E acc \in Accessors(caught.obj.type) :
       lastRead' = [accessor |-> acc, result |-> Call(acc, caught.obj)]
  /\ UNCHANGED <<mode, pc, stack, err, args, buf, inflight, thrownAs, raiseStack,
                 caught, termCalls, afterRaise, rejected>>

\* the handler ends: the exception object is destroyed, control goes on after the try block
HandlerDone ==
  /\ pc = "handling"
  /\ inflight' = None
  /\ lastRead' = None
  /\ pc' = "done"
  /\ UNCHANGED <<mode, stack, err, args, buf, thrownAs, raiseStack,
                 caught, termCalls, afterRaise, rejected>>

\* the user's ThrowException does what it must: it never returns
TerminalActionAborts ==
  /\ pc = "terminal_action"
  /\ pc' = "aborted"
  /\ UNCHANGED <<mode, stack, err, args, buf, inflight, thrownAs, raiseStack,
                 caught, termCalls, afterRaise, lastRead, rejected>>

\* the user's ThrowException returns: undefined behaviour from here on
TerminalActionReturns ==
  /\ pc = "terminal_action"
  /\ termCalls' = [termCalls EXCEPT ![Len(termCalls)].returned = TRUE]
  /\ pc' = "returned"
  /\ UNCHANGED <<mode, stack, err, args, buf, inflight, thrownAs, raiseStack,
                 caught, afterRaise, lastRead, rejected>>

\* one outcome of the undefined behaviour: control falls through to the caller
UndefinedFallsThrough ==
  /\ pc = "returned"
  /\ pc' = "after_raise"
  /\ UNCHANGED <<mode, stack, err, args, buf, inflight, thrownAs, raiseStack,
                 caught, termCalls, afterRaise, lastRead, rejected>>

\* another: the program traps
UndefinedTraps ==
  /\ pc = "returned"
  /\ pc' = "crashed"
  /\ UNCHANGED <<mode, stack, err, args, buf, inflight, thrownAs, raiseStack,
                 caught, termCalls, afterRaise, lastRead, rejected>>

\* the statement that follows the raise at the call site
StatementAfterRaise ==
  /\ pc = "after_raise"
  /\ afterRaise' = TRUE
  /\ pc' = "done"
  /\ UNCHANGED <<mode, stack, err, args, buf, inflight, thrownAs, raiseStack,
                 caught, termCalls, lastRead, rejected>>

\* the steps of a program nesting at most `depth` try blocks, its constructor calls
\* drawn from the wide or the narrow inputs
NextOf(depth, wide) ==
  \/ BuildAccepted
  \/ BuildRejected
  \/ EnterTry(depth)
  \/ LeaveTry
  \/ ConstructRuntimeException
  \/ ConstructBoundsException(wide)
  \/ ConstructLowerBoundException(wide)
  \/ ConstructUpperBoundException(wide)
  \/ ConstructInvalidValueException(wide)
  \/ ConstructInvalidValueExceptionTolerance(wide)
  \/ ConstructSingularMatrixException(wide)
  \/ AssignRuntimeException
  \/ CallAccessor
  \/ CallerOverwritesMatrix
  \/ CallerFreesMatrix
  \/ ThrowException
  \/ ThrowExceptionNoExceptions
  \/ OL_THROW_EXCEPTION(wide)
  \/ Catch
  \/ PropagateFrame
  \/ Terminate
  \/ HandlerCallsAccessor
  \/ HandlerDone
  \/ TerminalActionAborts
  \/ TerminalActionReturns
  \/ UndefinedFallsThrough
  \/ UndefinedTraps
  \/ StatementAfterRaise

\* every constructor argument varies, under at most MaxTry try blocks
Next == NextOf(MaxTry, TRUE)
Spec == Init /\ [][Next]_vars

\* every nesting of at most MaxDepth try blocks, one call of each constructor
NextNesting == NextOf(MaxDepth, FALSE)
SpecNesting == Init /\ [][NextNesting]_vars

-----------------------------------------------------------------------------
(* Properties *)

\* the first index >= i at which p occurs in s, 0 when there is none
RECURSIVE FindFrom(_, _, _)
FindFrom(p, s, i) ==
  IF i + Len(p) - 1 > Len(s) THEN 0
  ELSE IF SubSeq(s, i, i + Len(p) - 1) = p THEN i
  ELSE FindFrom(p, s, i + 1)

\* the strings of parts occur in s one after the other, in this order, from index i on
RECURSIVE InOrderFrom(_, _, _)
InOrderFrom(parts, s, i) ==
  IF parts = <<>> THEN TRUE
  ELSE LET at == FindFrom(Head(parts), s, i)
       IN at # 0 /\ InOrderFrom(Tail(parts), s, at + Len(Head(parts)))

InOrder(parts, s) == InOrderFrom(parts, s, 1)

Raised == thrownAs # None

\* the payload accessors of o return what the constructor call a supplied
SuppliedPayload(o, a) ==
  CASE a.type.kind = "BoundsException" ->
         value(o) = a.value /\ min(o) = a.min /\ max(o) = a.max
    [] a.type.kind = "LowerBoundException" -> value(o) = a.value /\ min(o) = a.min
    [] a.type.kind = "UpperBoundException" -> value(o) = a.value /\ max(o) = a.max
    [] a.type.kind = "InvalidValueException" ->
         /\ value(o) = a.value
         /\ truth(o) = a.truth
         /\ a.form = "tolerance" => tolerance(o) = a.tolerance
    [] a.type.kind = "SingularMatrixException" ->
         /\ num_rows(o) = a.num_rows
         /\ num_cols(o) = a.num_cols
         /\ matrix(o) = SubSeq(a.matrix_in, 1, a.num_rows * a.num_cols)
    [] OTHER -> TRUE

\* C1: in unwind mode, an error raised with ThrowException and caught by a handler
\* declared for its own kind reaches the handler with every payload accessor
\* returning the value supplied at construction, and with what() returning the
\* string of the original value, which holds the supplied message, routine and location.
C1_RoundTrip ==
  (mode = "unwind" /\ caught # None /\ caught.handler = args.type) =>
    /\ caught.obj.type = args.type
    /\ SuppliedPayload(caught.obj, args)
    /\ what(caught.obj) = what(err)
    /\ InOrder(<<args.custom_message, args.func_info, args.line_info>>, what(caught.obj))

C1_Witness ==
  /\ mode = "unwind"
  /\ caught # None
  /\ caught.handler = args.type
  /\ args.type = BoundsExceptionT("int")
  /\ args.min # args.max

Nearest(stk, t) ==
  IF \E j \in 1..Len(stk) : Matches(stk[j], t)
    THEN CHOOSE j \in 1..Len(stk) :
           /\ Matches(stk[j], t)
           /\ \A k \in (j + 1)..Len(stk) : ~Matches(stk[k], t)
    ELSE 0

\* C3 (as amended): in unwind mode, for any nesting of handlers, the raise transfers
\* control to the nearest enclosing handler whose declared type matches the static
\* type ThrowException was instantiated with (the error's own kind unless it was
\* passed through a reference to a base); the handler receives a copy of the error
\* as that type, with the error's payload and string unless that type is
\* std::exception, which has neither; the statement following the raise is never executed.
C3_NearestHandler ==
  (mode = "unwind" /\ caught # None) =>
    /\ caught.depth = Nearest(raiseStack, thrownAs)
    /\ caught.handler = raiseStack[caught.depth]
    /\ caught.obj.type = thrownAs
    /\ thrownAs # StdException =>
         \A acc \in Accessors(thrownAs) : Call(acc, caught.obj) = Call(acc, err)
    /\ ~afterRaise

C3_Witness ==
  /\ mode = "unwind"
  /\ caught # None
  /\ Len(raiseStack) = 2
  /\ caught.depth = 1
  /\ Matches(raiseStack[2], err.type)
  /\ thrownAs # err.type

\* C3 as claimed: the handler is the nearest one matching the error's kind and it
\* receives the error value or a copy of it.
C3_NearestHandlerOfKind ==
  (mode = "unwind" /\ caught # None) =>
    /\ caught.depth = Nearest(raiseStack, err.type)
    /\ caught.obj = err
    /\ ~afterRaise

\* C4: in unwind mode a raised error leaves every enclosing try block that has no
\* matching handler, one after the other, until a handler receives it; when no
\* enclosing handler matches, the process terminates.  It is never dropped and
\* execution never goes on without a handler having received it.
C4_Propagation ==
  mode = "unwind" =>
    /\ Raised => pc \in {"unwinding", "handling", "done", "terminated"}
    /\ pc = "unwinding" =>
         /\ inflight # None
         /\ stack = SubSeq(raiseStack, 1, Len(stack))
         /\ \A j \in (Len(stack) + 1)..Len(raiseStack) : ~Matches(raiseStack[j], inflight.type)
         /\ ENABLED (Catch \/ PropagateFrame \/ Terminate)
    /\ pc = "terminated" =>
         /\ inflight # None
         /\ \A j \in 1..Len(raiseStack) : ~Matches(raiseStack[j], inflight.type)
    /\ pc = "handling" => caught # None /\ caught.obj = inflight
    /\ pc = "done" => caught # None
    /\ ~afterRaise

C4_Witness ==
  /\ mode = "unwind"
  /\ pc = "terminated"
  /\ Len(raiseStack) >= 2

\* the condition-specific part of the diagnostic string of each class
Description(e) ==
  CASE e.type.kind \in BoundsFamily ->
         FormatValue(e.type.T, value(e)) \o " is not in range ["
           \o FormatValue(e.type.T, min(e)) \o ", " \o FormatValue(e.type.T, max(e)) \o "]"
    [] e.type.kind = "InvalidValueException" ->
         FormatValue(e.type.T, value(e)) \o " != " \o FormatValue(e.type.T, truth(e))
    [] e.type.kind = "SingularMatrixException" ->
         FormatInt(num_rows(e)) \o " x " \o FormatInt(num_cols(e)) \o " matrix is singular"
    [] OTHER -> ""

\* C5 (as amended): for every error kind but RuntimeException, what() holds, in this
\* order, the kind's kName, the condition-specific description, the custom message,
\* the calling routine and the file/line location; RuntimeException has no
\* condition-specific description and holds the other four, in this order.
C5_DiagnosticString ==
  err # NoError =>
    /\ err.type # RuntimeExceptionT => Description(err) # ""
    /\ FindFrom(kName(err.type.kind), what(err), 1) = 1
    /\ InOrder(<<kName(err.type.kind), Description(err), args.custom_message,
                 args.func_info, args.line_info>>, what(err))

C5_Witness ==
  /\ err # NoError
  /\ err.type = LowerBoundExceptionT("int")
  /\ args.custom_message # ""
  /\ Description(err) # ""

\* C5 as claimed: for every error kind what() holds all five fields, none omitted.
C5_AllFiveFields ==
  err # NoError =>
    /\ Description(err) # ""
    /\ InOrder(<<kName(err.type.kind), Description(err), args.custom_message,
                 args.func_info, args.line_info>>, what(err))

\* s without its leading name, when it leads with it
AfterName(s, name) ==
  IF FindFrom(name, s, 1) = 1 THEN SubSeq(s, Len(name) + 1, Len(s)) ELSE "?"

\* C6: a LowerBoundException<T> built from (value, min) has max() = T's maximum
\* representable value, an UpperBoundException<T> built from (value, max) has
\* min() = T's lowest representable value; the other two payload fields are the
\* supplied ones, and the string is the one BoundsException gives for the same
\* three values, under the kind's own name.
C6_SentinelBounds ==
  /\ (err # NoError /\ err.type.kind = "LowerBoundException") =>
       /\ max(err) = NumericLimitsMax(err.type.T)
       /\ value(err) = args.value
       /\ min(err) = args.min
       /\ AfterName(what(err), "LowerBoundException")
            = AfterName(what(BoundsException(err.type.T, args.line_info, args.func_info,
                                             args.custom_message, args.value, args.min,
                                             NumericLimitsMax(err.type.T))),
                        "BoundsException")
  /\ (err # NoError /\ err.type.kind = "UpperBoundException") =>
       /\ min(err) = NumericLimitsLowest(err.type.T)
       /\ value(err) = args.value
       /\ max(err) = args.max
       /\ AfterName(what(err), "UpperBoundException")
            = AfterName(what(BoundsException(err.type.T, args.line_info, args.func_info,
                                             args.custom_message, args.value,
                                             NumericLimitsLowest(err.type.T), args.max)),
                        "BoundsException")

C6_Witness ==
  /\ err # NoError
  /\ err.type = UpperBoundExceptionT("double")
  /\ min(err) = <<"lowest", 0>>
  /\ max(err) = args.max

\* C7: BoundsException stores value, min and max as supplied, neither clamped nor
\* swapped, and no triple is rejected: the constructor can be called with every
\* triple, min > max and value within [min, max] included.
C7_BoundsVerbatim ==
  /\ (err # NoError /\ err.type.kind = "BoundsException") =>
       value(err) = args.value /\ min(err) = args.min /\ max(err) = args.max
  /\ (pc = "run" /\ err = NoError) => \A a \in BoundsCalls(TRUE) : ENABLED Construct(a)

C7_Witness ==
  /\ err # NoError
  /\ err.type = BoundsExceptionT("int")
  /\ args.min > args.max
  /\ args.max <= args.value /\ args.value <= args.min
  /\ min(err) = args.min

\* C8: the tolerance constructor of InvalidValueException<T> exists only for a
\* floating-point T: a call of it for T = int is rejected when the program is
\* built, nothing of that program runs, and no InvalidValueException<int> ever
\* holds a tolerance a caller supplied.
C8_ToleranceOnlyFloatingPoint ==
  /\ (err # NoError /\ err.type = InvalidValueExceptionT("int")) =>
       args.form = "plain"
  /\ rejected # None => pc = "build_failed"
  /\ pc = "build_failed" => err = NoError /\ ~Raised

C8_Witness ==
  /\ pc = "build_failed"
  /\ rejected = [op |-> "ctor", type |-> InvalidValueExceptionT("int"), form |-> "tolerance"]
  /\ err = NoError

\* C9: SingularMatrixException holds its own copy of the matrix: matrix() returns
\* the rows*cols values supplied, in the row-major order supplied, num_rows() and
\* num_cols() the supplied counts, whatever the caller does to its storage later.
C9_OwnedMatrix ==
  (err # NoError /\ err.type = SingularMatrixExceptionT) =>
    /\ num_rows(err) = args.num_rows
    /\ num_cols(err) = args.num_cols
    /\ Len(matrix(err)) = args.num_rows * args.num_cols
    /\ \A i \in 1..args.num_rows : \A j \in 1..args.num_cols :
         matrix(err)[(i - 1) * args.num_cols + j] = args.matrix_in[(i - 1) * args.num_cols + j]

C9_Witness ==
  /\ err # NoError
  /\ err.type = SingularMatrixExceptionT
  /\ args.num_rows = 2 /\ args.num_cols = 2
  /\ args.matrix_in = InitialMatrix
  /\ ~buf.live

\* C10: an error value is immutable after construction: no step changes what() or
\* a payload accessor of an existing error value.
C10_Immutable ==
  [][err # NoError =>
       /\ err'.type = err.type
       /\ \A acc \in Accessors(err.type) : Call(acc, err') = Call(acc, err)]_vars

\* the catch clauses that can receive an exception object of class t, class by class:
\* the class itself, std::exception, and for the two one-sided classes the
\* BoundsException of the same ValueType
CatchesOfKind(t) ==
  {t, StdException}
    \cup (IF t.kind = "LowerBoundException" THEN {[kind |-> "BoundsException", T |-> t.T]}
          ELSE IF t.kind = "UpperBoundException" THEN {[kind |-> "BoundsException", T |-> t.T]}
          ELSE {})

\* the unwinder has finished its search for a handler
SearchOver == pc \in {"handling", "done", "terminated"}

\* C11 (as amended): in unwind mode handler matching follows the kind hierarchy.
\* An error raised as LowerBoundException<T> or UpperBoundException<T> is caught by
\* an enclosing handler declared for BoundsException<T> (same T) when no nearer
\* handler is declared for the exact kind, for BoundsException<T> or for
\* std::exception; an error of any kind is caught by an enclosing handler declared
\* for std::exception when no nearer handler matches it; a handler declared for a
\* different kind or a different T never catches it; the caught object has the
\* static type passed to ThrowException.
C11_KindHierarchy ==
  (mode = "unwind" /\ Raised) =>
    /\ caught # None =>
         /\ caught.handler \in CatchesOfKind(thrownAs)
         /\ caught.handler = raiseStack[caught.depth]
         /\ caught.obj.type = thrownAs
    /\ \A j \in 1..Len(raiseStack) :
         (/\ raiseStack[j] \in CatchesOfKind(thrownAs)
          /\ \A k \in (j + 1)..Len(raiseStack) : raiseStack[k] \notin CatchesOfKind(thrownAs))
           => /\ pc = "unwinding" => Len(stack) >= j
              /\ SearchOver => /\ pc # "terminated"
                               /\ caught # None
                               /\ caught.depth = j
    /\ pc = "terminated" =>
         \A j \in 1..Len(raiseStack) : raiseStack[j] \notin CatchesOfKind(thrownAs)

\* a LowerBoundException<T> is caught by the outer BoundsException<T> handler after
\* the inner BoundsException handler of the other ValueType has let it pass
C11_Witness ==
  /\ mode = "unwind"
  /\ caught # None
  /\ thrownAs.kind = "LowerBoundException"
  /\ err.type = thrownAs
  /\ Len(raiseStack) = 2
  /\ raiseStack[2].kind = "BoundsException"
  /\ raiseStack[2].T # thrownAs.T
  /\ caught.depth = 1
  /\ caught.handler = BoundsExceptionT(thrownAs.T)
  /\ caught.obj.type = thrownAs

\* C11 as claimed: the BoundsException<T> handler catches the one-sided error
\* whenever no nearer handler for the exact kind exists.
C11_HierarchyAsClaimed ==
  (mode = "unwind" /\ Raised /\ SearchOver) =>
    /\ caught # None =>
         /\ caught.handler \in CatchesOfKind(thrownAs)
         /\ caught.obj.type = thrownAs
    /\ (/\ thrownAs.kind \in {"LowerBoundException", "UpperBoundException"}
        /\ \E j \in 1..Len(raiseStack) :
             /\ raiseStack[j] = BoundsExceptionT(thrownAs.T)
             /\ \A k \in (j + 1)..Len(raiseStack) : raiseStack[k] # thrownAs)
         => /\ caught # None
            /\ caught.handler = BoundsExceptionT(thrownAs.T)
    /\ (\E j \in 1..Len(raiseStack) : raiseStack[j] = StdException) => caught # None

====
